---------------------------- MODULE Spec2Model ----------------------------
(***************************************************************************)
(* A model of the layer primitives of network/layer.py.                    *)
(*                                                                         *)
(* Every layer instance is a record of its fields.  A tensor is a record   *)
(* Arr(shape, data) holding its shape and its elements in row-major order, *)
(* so that a reshape keeps the data and replaces the shape, as numpy does. *)
(* Python's None is the record None.  Each method is an operator from the  *)
(* instance and the arguments to the instance after the call, the result   *)
(* returned (or the exception raised) and the caller's argument arrays     *)
(* after the call; one action per method applies it.                       *)
(*                                                                         *)
(* Floating-point numbers are modelled exactly: integers where the inputs  *)
(* are integral, rationals <<numerator, denominator>> where the code       *)
(* divides.  Rounding is not modelled.                                     *)
(***************************************************************************)
EXTENDS Integers, Sequences, FiniteSets, TLC

VARIABLES
    relu,       \* the Relu instance
    affine,     \* the Affine instance
    lossLayer,  \* the SoftmaxWithLoss instance
    dropout,    \* the Dropout instance
    batchnorm,  \* the BatchNorm instance
    conv,       \* the Convolution instance
    pooling,    \* the Pooling instance
    call,       \* the most recent call: method, arguments, outcome
    hist        \* history: the instance before that call, the last forward's mode

vars == <<relu, affine, lossLayer, dropout, batchnorm, conv, pooling, call, hist>>

---------------------------------------------------------------------------
(* Bounds of the model. *)

\* Forward calls are counted up to MaxCalls.
MaxCalls == 2

\* A BatchNorm instance runs at most MaxTrain training-mode forward calls: its
\* running statistics take new values with every one of them.
MaxTrain == 2

\* Batches hold 1..MaxBatch rows.
MaxBatch == 2

\* Predictions have 1..MaxClasses classes.
MaxClasses == 2

\* Images are 1..MaxHW pixels high and wide.
MaxHW == 2

\* One-dimensional inputs of Relu and Dropout have 1..MaxLen elements.
MaxLen == 2

---------------------------------------------------------------------------
(* Values. *)

None == [kind |-> "None"]

Arr(shape, data) == [kind |-> "ndarray", shape |-> shape, data |-> data]

IsArr(v) == v.kind = "ndarray"

RECURSIVE Prod(_)
Prod(s) == IF s = <<>> THEN 1 ELSE Head(s) * Prod(Tail(s))

\* ndarray.size
Size(a) == Prod(a.shape)

\* The elements of the inputs of Relu and Dropout: negative, zero, positive.
Vals == {-1, 0, 2}

\* The one-dimensional integer arrays of 1..MaxLen elements.
Vectors == UNION {{Arr(<<n>>, d) : d \in [1..n -> Vals]} : n \in 1..MaxLen}

\* A zero-dimensional array: a Python scalar argument such as dout=1.
Scalar(v) == Arr(<<>>, <<v>>)

\* What a call leaves behind for the checks: the method, its outcome
\* ("ok", or the exception raised), the arguments as passed, the caller's
\* argument arrays after the call, the value returned, and the argument the
\* returned object is (alias) when it is no new object.
Call(op, status, args, after, ret, alias) ==
    [op |-> op, status |-> status, args |-> args, after |-> after,
     ret |-> ret, alias |-> alias]

\* The arguments kept of a call: those of a call that returned.
Args(status, args) == IF status = "ok" THEN args ELSE <<>>

NoCall == Call("init", "ok", <<>>, <<>>, None, "fresh")

\* History kept for the checks: the instance before the most recent call, the
\* mode and the arguments of the most recent forward call, the number of
\* forward calls so far (counted up to MaxCalls), the number of training-mode
\* forward calls of BatchNorm, whether a call was given an argument of a
\* shape that does not fit the layer and whether a backward call has returned.
NoHist ==
    [pre |-> None, last_forward |-> "none", last_args |-> <<>>, forwards |-> 0,
     trains |-> 0, inconsistent |-> FALSE, backwards |-> FALSE]

HistForward(h, inst, mode, args) ==
    [h EXCEPT !.pre = inst, !.last_forward = mode, !.last_args = args,
              !.forwards = IF @ < MaxCalls THEN @ + 1 ELSE MaxCalls]

HistOther(h, inst) == [h EXCEPT !.pre = inst]

\* For the layers with parameters the history also tells whether some call
\* was given an argument of a shape that does not fit the layer (consistent
\* is whether this call's argument fits) and whether some backward call has
\* returned.
Noted(h, op, status, consistent) ==
    [h EXCEPT !.inconsistent = @ \/ ~consistent,
              !.backwards = @ \/ (op = "backward" /\ status = "ok")]

---------------------------------------------------------------------------
(* numpy operations on the modelled tensors. *)

\* Shapes of rank <= 1 that numpy broadcasts together.
Broadcastable(s, t) ==
    \/ s = <<>> \/ t = <<>>
    \/ s = t
    \/ s = <<1>> \/ t = <<1>>

BroadcastShape(s, t) ==
    IF s = <<>> THEN t
    ELSE IF t = <<>> THEN s
    ELSE IF s = <<1>> THEN t ELSE s

\* Element i of a (rank <= 1) broadcast to shape s.
BAt(a, s, i) == IF Size(a) = 1 THEN a.data[1] ELSE a.data[i]

---------------------------------------------------------------------------
(* Matrices: tensors of rank 2, element (i, j) at data[(i-1)*columns + j]. *)

At(a, i, j) == a.data[(i - 1) * a.shape[2] + j]

Mat(rows, cols, f) ==
    Arr(<<rows, cols>>,
        [k \in 1..(rows * cols) |-> f[((k - 1) \div cols) + 1, ((k - 1) % cols) + 1]])

\* The matrix whose rows are the sequences of rows (all of one length).
FromRows(rows) == Mat(Len(rows), Len(rows[1]), [i \in 1..(Len(rows)), j \in 1..(Len(rows[1])) |-> rows[i][j]])

Vec(d) == Arr(<<Len(d)>>, d)

RECURSIVE SumSeq(_)
SumSeq(q) == IF q = <<>> THEN 0 ELSE Head(q) + SumSeq(Tail(q))

RECURSIVE ProdKnown(_)
\* The product of the dimensions of a shape that are not -1.
ProdKnown(s) ==
    IF s = <<>> THEN 1
    ELSE (IF Head(s) = -1 THEN 1 ELSE Head(s)) * ProdKnown(Tail(s))

\* a.reshape(shape): the same elements under another shape.  One dimension
\* may be -1, which numpy infers from the size; "ValueError" when the size
\* does not fit.
Reshape(a, shape) ==
    LET unknown == {i \in DOMAIN shape : shape[i] = -1}
        known   == ProdKnown(shape)
    IN  IF \/ \E i \in DOMAIN shape : shape[i] < -1
           \/ Cardinality(unknown) > 1
           \/ unknown = {} /\ known # Size(a)
           \/ unknown # {} /\ (known = 0 \/ Size(a) % known # 0)
        THEN [status |-> "ValueError", arr |-> None]
        ELSE [status |-> "ok",
              arr |-> Arr([i \in DOMAIN shape |->
                              IF shape[i] = -1 THEN Size(a) \div known ELSE shape[i]],
                          a.data)]

\* x.reshape(x.shape[0], -1)
FlattenRows(x) == Arr(<<x.shape[1], Size(x) \div x.shape[1]>>, x.data)

\* a.T
Transpose(a) == Mat(a.shape[2], a.shape[1], [i \in 1..a.shape[2], j \in 1..a.shape[1] |-> At(a, j, i)])

\* np.dot(a, b) of two matrices
Dot(a, b) ==
    IF a.shape[2] # b.shape[1]
    THEN [status |-> "ValueError", arr |-> None]
    ELSE [status |-> "ok",
          arr |-> Mat(a.shape[1], b.shape[2], [i \in 1..a.shape[1], j \in 1..b.shape[2] |-> SumSeq([k \in 1..a.shape[2] |-> At(a, i, k) * At(b, k, j)])])]

\* np.sum(a, axis=0)
SumAxis0(a) ==
    Arr(<<a.shape[2]>>, [j \in 1..a.shape[2] |-> SumSeq([i \in 1..a.shape[1] |-> At(a, i, j)])])

\* a + b for a matrix a and a vector b, broadcast over the rows
AddRow(a, b) ==
    IF b.shape # <<a.shape[2]>> /\ b.shape # <<1>>
    THEN [status |-> "ValueError", arr |-> None]
    ELSE [status |-> "ok",
          arr |-> Mat(a.shape[1], a.shape[2], [i \in 1..a.shape[1], j \in 1..a.shape[2] |-> At(a, i, j) + (IF Size(b) = 1 THEN b.data[1] ELSE b.data[j])])]

\* The sequences of 1..n elements of S.
SeqsUpTo(S, n) == UNION {[1..k -> S] : k \in 1..n}

---------------------------------------------------------------------------
(* Exact rational arithmetic: <<n, d>> with d > 0 in lowest terms. *)

Abs(n) == IF n < 0 THEN -n ELSE n

RECURSIVE GCD(_, _)
GCD(a, b) == IF b = 0 THEN a ELSE GCD(b, a % b)

Rat(n, d) ==
    LET g == GCD(Abs(n), Abs(d))
        s == IF d < 0 THEN -1 ELSE 1
    IN  <<(s * n) \div g, (s * d) \div g>>

RInt(n) == <<n, 1>>
RAdd(p, q) == Rat(p[1] * q[2] + q[1] * p[2], p[2] * q[2])
RSub(p, q) == Rat(p[1] * q[2] - q[1] * p[2], p[2] * q[2])
RMul(p, q) == Rat(p[1] * q[1], p[2] * q[2])
RDivInt(p, n) == Rat(p[1], p[2] * n)

---------------------------------------------------------------------------
(* class Relu *)

Relu_init == [mask |-> None]

\* (x <= 0)
LeZero(x) == Arr(x.shape, [i \in DOMAIN x.data |-> x.data[i] <= 0])

\* a[mask] = 0 on a copy of the data: the elements after the assignment,
\* or "IndexError" when the boolean index does not match the array.
\* mask = None indexes with numpy.newaxis: a[None] is a view of the whole
\* array, so the assignment zeroes every element.
SetMaskedZero(a, mask) ==
    IF mask = None
    THEN [status |-> "ok", arr |-> Arr(a.shape, [i \in DOMAIN a.data |-> 0])]
    ELSE IF mask.shape # a.shape
    THEN [status |-> "IndexError", arr |-> a]
    ELSE [status |-> "ok",
          arr |-> Arr(a.shape, [i \in DOMAIN a.data |->
                                   IF mask.data[i] THEN 0 ELSE a.data[i]])]

\* Mutant of Relu_forward: the mask leaves out x = 0.
Relu_forward_strict(self, x) ==
    LET mask == Arr(x.shape, [i \in DOMAIN x.data |-> x.data[i] < 0])
    IN  [self   |-> [self EXCEPT !.mask = mask],
         status |-> "ok",
         after  |-> <<x>>,
         ret    |-> SetMaskedZero(x, mask).arr,
         alias  |-> "fresh"]

Relu_forward(self, x) ==
    LET mask == LeZero(x)
        out  == SetMaskedZero(x, mask).arr     \* out = x.copy(); out[mask] = 0
    IN  [self   |-> [self EXCEPT !.mask = mask],
         status |-> "ok",
         after  |-> <<x>>,
         ret    |-> out,
         alias  |-> "fresh"]

Relu_backward(self, dout) ==
    LET r == SetMaskedZero(dout, self.mask)    \* dout[self.mask] = 0, in place
    IN  [self   |-> self,
         status |-> r.status,
         after  |-> <<r.arr>>,
         ret    |-> IF r.status = "ok" THEN r.arr ELSE None,
         alias  |-> IF r.status = "ok" THEN "dout" ELSE "fresh"]

ReluForward ==
    \E x \in Vectors :
        \E r \in {Relu_forward(relu, x)} :
            /\ relu' = r.self
            /\ call' = Call("forward", r.status, <<x>>, r.after, r.ret, r.alias)
            /\ hist' = HistForward(hist, relu, "forward", <<x>>)
            /\ UNCHANGED <<affine, lossLayer, dropout, batchnorm, conv, pooling>>

ReluBackward ==
    \E dout \in Vectors :
        \E r \in {Relu_backward(relu, dout)} :
            /\ relu' = r.self
            /\ call' = Call("backward", r.status, <<dout>>, r.after, r.ret, r.alias)
            /\ hist' = HistOther(hist, relu)
            /\ UNCHANGED <<affine, lossLayer, dropout, batchnorm, conv, pooling>>

InitRelu ==
    /\ relu = Relu_init
    /\ affine = None /\ lossLayer = None /\ dropout = None
    /\ batchnorm = None /\ conv = None /\ pooling = None
    /\ call = NoCall
    /\ hist = NoHist

NextRelu == ReluForward \/ ReluBackward

SpecRelu == InitRelu /\ [][NextRelu]_vars

\* max(x, 0) elementwise, stated apart from the code's masking.
Max0(x) == Arr(x.shape, [i \in DOMAIN x.data |-> IF x.data[i] > 0 THEN x.data[i] ELSE 0])

\* C9: Relu.forward(x) returns max(x, 0) elementwise as a new array, leaves
\* the caller's x as it was and caches the mask of the positions where
\* x <= 0; a backward(dOut) that follows a forward (dOut shaped like that
\* forward's x) succeeds, leaves the caller's dOut zero exactly where the most
\* recent forward's x was <= 0 and unchanged elsewhere, and returns that same
\* array object.
C9_ReluForwardBackward ==
    /\ call.op = "forward" =>
          LET x == call.args[1]
          IN  /\ call.status = "ok"
              /\ call.ret = Max0(x)
              /\ call.alias = "fresh"
              /\ call.after[1] = x
              /\ relu.mask.shape = x.shape
              /\ \A i \in DOMAIN x.data : relu.mask.data[i] <=> (x.data[i] <= 0)
    /\ (call.op = "backward" /\ hist.last_forward = "forward"
          /\ call.args[1].shape = hist.last_args[1].shape) =>
          LET x    == hist.last_args[1]
              dout == call.args[1]
          IN  /\ call.status = "ok"
              /\ call.alias = "dout"
              /\ call.ret = call.after[1]
              /\ call.after[1].shape = dout.shape
              /\ \A i \in DOMAIN dout.data :
                    call.after[1].data[i] = IF x.data[i] <= 0 THEN 0 ELSE dout.data[i]
              /\ relu = hist.pre

\* Witness of C9: after at least two forward calls, the last one on an x that
\* holds a 0 and a positive element, a backward has zeroed a nonzero gradient
\* at the 0 and kept a nonzero gradient at the positive element.
C9_Witness ==
    /\ call.op = "backward" /\ call.status = "ok"
    /\ hist.forwards >= 2
    /\ hist.last_args[1].shape = call.args[1].shape
    /\ \E i, j \in DOMAIN call.args[1].data :
          /\ hist.last_args[1].data[i] = 0 /\ call.args[1].data[i] # 0
          /\ call.after[1].data[i] = 0
          /\ hist.last_args[1].data[j] > 0 /\ call.after[1].data[j] # 0

---------------------------------------------------------------------------
(* class Dropout *)

\* The dropout probabilities instances are constructed with; 0.5 is the default.
DropoutRatios == {Rat(1, 2), Rat(1, 4)}

Dropout_init(dropout_ratio) == [mask |-> None, dropout_ratio |-> dropout_ratio]

\* The boolean arrays of a shape: the outcomes of
\* np.random.rand(*x.shape) > self.dropout_ratio.
BoolArrays(shape) == {Arr(shape, d) : d \in [1..Prod(shape) -> BOOLEAN]}

\* a * b for an integer array a and a boolean array b of rank <= 1, with
\* numpy's broadcasting; "ValueError" when the shapes do not broadcast.
MulMask(a, b) ==
    IF ~Broadcastable(a.shape, b.shape)
    THEN [status |-> "ValueError", arr |-> None]
    ELSE LET s == BroadcastShape(a.shape, b.shape)
         IN  [status |-> "ok",
              arr |-> Arr(s, [i \in 1..Prod(s) |->
                                 IF BAt(b, s, i) THEN BAt(a, s, i) ELSE 0])]

\* forward(x, train_flag); rnd is the outcome of the random draw, read only
\* when train_flag holds.
Dropout_forward(self, x, train_flag, rnd) ==
    IF train_flag
    THEN [self   |-> [self EXCEPT !.mask = rnd],
          status |-> "ok",
          ret    |-> MulMask(x, rnd).arr]
    ELSE [self   |-> self,
          status |-> "ok",
          ret    |-> Arr(x.shape, [i \in DOMAIN x.data |->
                          RMul(RInt(x.data[i]), RSub(RInt(1), self.dropout_ratio))])]

\* backward(dout): dout * self.mask; None * array raises TypeError.
Dropout_backward(self, dout) ==
    IF self.mask = None
    THEN [self |-> self, status |-> "TypeError", ret |-> None]
    ELSE LET r == MulMask(dout, self.mask)
         IN  [self |-> self, status |-> r.status, ret |-> r.arr]

DropoutForward ==
    \E x \in Vectors, train_flag \in BOOLEAN :
        \E rnd \in IF train_flag THEN BoolArrays(x.shape) ELSE {None} :
            \E r \in {Dropout_forward(dropout, x, train_flag, rnd)} :
                /\ dropout' = r.self
                /\ call' = Call("forward", r.status, <<x, train_flag>>, <<x>>, r.ret, "fresh")
                /\ hist' = HistForward(hist, dropout,
                                       IF train_flag THEN "train" ELSE "infer",
                                       <<x, train_flag>>)
                /\ UNCHANGED <<relu, affine, lossLayer, batchnorm, conv, pooling>>

DropoutBackward ==
    \E dout \in Vectors \cup {Scalar(1)} :
        \E r \in {Dropout_backward(dropout, dout)} :
            /\ dropout' = r.self
            /\ call' = Call("backward", r.status, <<dout>>, <<dout>>, r.ret, "fresh")
            /\ hist' = HistOther(hist, dropout)
            /\ UNCHANGED <<relu, affine, lossLayer, batchnorm, conv, pooling>>

InitDropout ==
    /\ dropout \in {Dropout_init(p) : p \in DropoutRatios}
    /\ relu = None /\ affine = None /\ lossLayer = None
    /\ batchnorm = None /\ conv = None /\ pooling = None
    /\ call = NoCall
    /\ hist = NoHist

NextDropout == DropoutForward \/ DropoutBackward

SpecDropout == InitDropout /\ [][NextDropout]_vars

\* C1: Dropout.backward raises an error whenever the most recent forward call
\* on the instance was not a training-mode forward (no forward at all, or an
\* inference-mode forward after a training-mode one); it never returns a
\* gradient masked by an older mask.
C1_BackwardNeedsTrainingForward ==
    (call.op = "backward" /\ hist.last_forward # "train") => call.status # "ok"

\* The part of C1 the code keeps: backward on an instance that never ran a
\* training-mode forward raises.
C1_FreshBackwardRaises ==
    (call.op = "backward" /\ hist.pre.mask = None) => call.status = "TypeError"

\* Dropout's forward contract, for reference: a training-mode forward caches
\* the drawn mask and returns x where the mask holds and 0 elsewhere; an
\* inference-mode forward returns x * (1 - p) and leaves the mask alone.
DropoutForwardContract ==
    call.op = "forward" =>
        IF call.args[2]
        THEN /\ dropout.mask.shape = call.args[1].shape
             /\ \A i \in DOMAIN call.ret.data :
                  call.ret.data[i] = IF dropout.mask.data[i] THEN call.args[1].data[i] ELSE 0
        ELSE /\ dropout = hist.pre
             /\ \A i \in DOMAIN call.ret.data :
                  call.ret.data[i] = RMul(RInt(call.args[1].data[i]),
                                          RSub(RInt(1), dropout.dropout_ratio))

---------------------------------------------------------------------------
(* class Affine *)

\* The parameters instances are constructed with: the identity with a zero
\* bias, a matrix that is not symmetric, and one that is not square.
AffineParams ==
    { <<FromRows(<< <<1, 0>>, <<0, 1>> >>), Vec(<<0, 0>>)>>,
      <<FromRows(<< <<1, 2>>, <<0, 1>> >>), Vec(<<1, 0>>)>>,
      <<FromRows(<< <<2>>, <<1>> >>), Vec(<<1>>)>> }

\* Rows of the inputs x and of the gradients dout.
AffineXRows == { <<1, 2>>, <<0, 1>>, <<2>> }
AffineDoutRows == { <<1, 1>>, <<1, 0>>, <<1>> }

\* The matrices of 1..n rows of equal length drawn from a set of rows.
BatchesUpTo(Rows, n) ==
    {FromRows(r) : r \in {q \in SeqsUpTo(Rows, n) :
                             \A i \in DOMAIN q : Len(q[i]) = Len(q[1])}}

Batches(Rows) == BatchesUpTo(Rows, MaxBatch)

\* The inputs of Affine.forward: each batch as a matrix (N, D) and as a
\* rank-4 tensor (N, 1, D, 1).
AffineInputs ==
    Batches(AffineXRows)
      \cup {Arr(<<m.shape[1], 1, m.shape[2], 1>>, m.data) : m \in Batches(AffineXRows)}

\* The gradients passed to Affine.backward.
AffineDouts == Batches(AffineDoutRows)

Affine_init(W, b) ==
    [x |-> None, b |-> b, W |-> W, original_x_shape |-> None, dW |-> None, db |-> None]

Affine_forward(self, x) ==
    LET x2   == FlattenRows(x)
        self1 == [self EXCEPT !.original_x_shape = Vec(x.shape), !.x = x2]
        xw   == Dot(x2, self.W)
    IN  IF xw.status # "ok"
        THEN [self |-> self1, status |-> xw.status, ret |-> None]
        ELSE LET out == AddRow(xw.arr, self.b)
             IN  [self |-> self1, status |-> out.status, ret |-> out.arr]

\* Mutant of Affine_backward: dW = dout.T . x, the transpose of x.T . dout.
Affine_backward_dW_transposed(self, dout) ==
    LET dx == Dot(dout, Transpose(self.W))
    IN  IF dx.status # "ok"
        THEN [self |-> self, status |-> dx.status, ret |-> None]
        ELSE IF self.x = None
        THEN [self |-> self, status |-> "AttributeError", ret |-> None]
        ELSE LET dW == Dot(Transpose(dout), self.x)
             IN  IF dW.status # "ok"
                 THEN [self |-> self, status |-> dW.status, ret |-> None]
                 ELSE LET self2 == [self EXCEPT !.dW = dW.arr, !.db = SumAxis0(dout)]
                          r     == Reshape(dx.arr, self.original_x_shape.data)
                      IN  [self |-> self2, status |-> r.status, ret |-> r.arr]

Affine_backward(self, dout) ==
    LET dx == Dot(dout, Transpose(self.W))
    IN  IF dx.status # "ok"
        THEN [self |-> self, status |-> dx.status, ret |-> None]
        ELSE IF self.x = None                     \* None has no attribute T
        THEN [self |-> self, status |-> "AttributeError", ret |-> None]
        ELSE LET dW == Dot(Transpose(self.x), dout)
             IN  IF dW.status # "ok"
                 THEN [self |-> self, status |-> dW.status, ret |-> None]
                 ELSE LET self2 == [self EXCEPT !.dW = dW.arr, !.db = SumAxis0(dout)]
                          r     == Reshape(dx.arr, self.original_x_shape.data)
                      IN  [self |-> self2, status |-> r.status, ret |-> r.arr]

\* The argument of a call fits the layer: x has as many features as W has
\* rows; dout has a row per row of the cached x and a column per column of W.
AffineConsistent(self, op, a) ==
    /\ Len(a.shape) >= 2
    /\ IF op = "forward" THEN Prod(Tail(a.shape)) = self.W.shape[1]
       ELSE /\ Len(a.shape) = 2
            /\ a.shape[2] = self.W.shape[2]
            /\ self.x # None => a.shape[1] = self.x.shape[1]

AffineForward ==
    /\ affine # None
    /\ \E x \in AffineInputs :
        \E r \in {Affine_forward(affine, x)} :
            /\ affine' = r.self
            /\ call' = Call("forward", r.status, <<x>>, <<x>>, r.ret, "fresh")
            /\ hist' = Noted(HistForward(hist, [b |-> affine.b, W |-> affine.W],
                                         "forward", <<x>>), "forward", r.status,
                             AffineConsistent(affine, "forward", x))
            /\ UNCHANGED <<relu, lossLayer, dropout, batchnorm, conv, pooling>>

AffineBackward ==
    /\ affine # None
    /\ \E dout \in AffineDouts :
        \E r \in {Affine_backward(affine, dout)} :
            /\ affine' = r.self
            /\ call' = Call("backward", r.status, Args(r.status, <<dout>>),
                             Args(r.status, <<dout>>), r.ret, "fresh")
            /\ hist' = Noted(HistOther(hist, [b |-> affine.b, W |-> affine.W]),
                             "backward", r.status,
                             AffineConsistent(affine, "backward", dout))
            /\ UNCHANGED <<relu, lossLayer, dropout, batchnorm, conv, pooling>>

InitAffine ==
    /\ affine \in {Affine_init(p[1], p[2]) : p \in AffineParams}
    /\ relu = None /\ lossLayer = None /\ dropout = None
    /\ batchnorm = None /\ conv = None /\ pooling = None
    /\ call = NoCall
    /\ hist = NoHist

NextAffine == AffineForward \/ AffineBackward

SpecAffine == InitAffine /\ [][NextAffine]_vars

\* C5: Affine.forward(x) records x's shape, caches x flattened to
\* (batch, features) and returns x.W + b; the backward(dOut) that follows stores
\* dW = x^T.dOut and db = the column sums of dOut, for the x of the most recent
\* forward, and returns dx = dOut.W^T in the shape of that x; neither call
\* changes W or b.  With W = [[1,0],[0,1]], b = [0,0], x = [[1,2]] forward
\* returns [[1,2]], and backward with dOut = [[1,1]] returns [[1,1]] and stores
\* dW = [[1,1],[2,2]], db = [1,1].
C5_AffineForwardBackward ==
    LET x0 == hist.last_args[1]
        N  == x0.shape[1]
        D  == Size(x0) \div N
        M  == affine.W.shape[2]
        xe(n, d) == x0.data[(n - 1) * D + d]
        W  == affine.W
        I2 == FromRows(<< <<1, 0>>, <<0, 1>> >>)
    IN
    /\ call.op \in {"forward", "backward"} =>
          affine.W = hist.pre.W /\ affine.b = hist.pre.b
    /\ call.op = "forward" =>
          /\ affine.original_x_shape = Vec(x0.shape)
          /\ affine.x = Arr(<<N, D>>, x0.data)
    /\ (call.op = "forward" /\ call.status = "ok") =>
          /\ call.ret.shape = <<N, M>>
          /\ \A n \in 1..N, m \in 1..M :
               At(call.ret, n, m)
                 = SumSeq([d \in 1..D |-> xe(n, d) * At(W, d, m)]) + affine.b.data[m]
    /\ (call.op = "backward" /\ call.status = "ok") =>
          LET dout == call.args[1]
          IN  /\ affine.dW.shape = <<D, M>>
              /\ \A d \in 1..D, m \in 1..M :
                   At(affine.dW, d, m) = SumSeq([n \in 1..N |-> xe(n, d) * At(dout, n, m)])
              /\ affine.db.shape = <<M>>
              /\ \A m \in 1..M :
                   affine.db.data[m] = SumSeq([n \in 1..N |-> At(dout, n, m)])
              /\ call.ret.shape = x0.shape
              /\ \A n \in 1..N, d \in 1..D :
                   call.ret.data[(n - 1) * D + d]
                     = SumSeq([m \in 1..M |-> At(dout, n, m) * At(W, d, m)])
    /\ (call.op # "init" /\ call.status = "ok"
          /\ W = I2 /\ affine.b = Vec(<<0, 0>>)
          /\ x0 = FromRows(<< <<1, 2>> >>)) =>
          /\ call.op = "forward" => call.ret = FromRows(<< <<1, 2>> >>)
          /\ (call.op = "backward" /\ call.args[1] = FromRows(<< <<1, 1>> >>)) =>
                /\ call.ret = FromRows(<< <<1, 1>> >>)
                /\ affine.dW = FromRows(<< <<1, 1>>, <<2, 2>> >>)
                /\ affine.db = Vec(<<1, 1>>)

\* Witness of C5: the end-to-end example, run after an earlier forward call on
\* another input: backward with dOut = [[1,1]] has returned after forward on
\* x = [[1,2]] with the identity weights.
C5_Witness ==
    /\ call.op = "backward" /\ call.status = "ok"
    /\ hist.forwards >= 2
    /\ affine.W = FromRows(<< <<1, 0>>, <<0, 1>> >>)
    /\ hist.last_args[1] = FromRows(<< <<1, 2>> >>)
    /\ call.args[1] = FromRows(<< <<1, 1>> >>)
    /\ affine.dW = FromRows(<< <<1, 1>>, <<2, 2>> >>)

\* Witness of C5 for a rank-4 input: backward has returned dx in the rank-4
\* shape of the most recent forward's x, under weights that are not square.
C5_WitnessRank4 ==
    /\ call.op = "backward" /\ call.status = "ok"
    /\ Len(hist.last_args[1].shape) = 4
    /\ call.ret.shape = hist.last_args[1].shape
    /\ affine.W.shape[1] # affine.W.shape[2]

---------------------------------------------------------------------------
(* class SoftmaxWithLoss *)

\* The scores x are given by their exponentials, a matrix w of positive
\* integers (x = log w); softmax(x) is then the matrix of the rationals
\* w[i][j] / (w[i][1] + ... + w[i][C]).
Softmax(w) ==
    Arr(w.shape,
        [k \in 1..Size(w) |->
            LET i == ((k - 1) \div w.shape[2]) + 1
            IN  Rat(w.data[k], SumSeq([j \in 1..w.shape[2] |-> At(w, i, j)]))])

\* cross_entropy_error(y, t): a logarithm, kept as the term it is computed from.
CrossEntropyError(y, t) == [kind |-> "cross_entropy_error", t |-> t, y |-> y]

SoftmaxWithLoss_init == [t |-> None, y |-> None, loss |-> None]

SoftmaxWithLoss_forward(self, x, t) ==
    LET y == Softmax(x)
    IN  [self   |-> [self EXCEPT !.loss = CrossEntropyError(y, t), !.y = y, !.t = t],
         status |-> "ok",
         ret    |-> CrossEntropyError(y, t)]

\* y - t for a matrix y of rationals and an integer array t of rank 1 or 2,
\* with numpy's broadcasting.
SubBroadcast(y, t) ==
    LET N == y.shape[1]
        C == y.shape[2]
    IN  IF Len(t.shape) = 2
        THEN IF t.shape # y.shape
             THEN [status |-> "ValueError", arr |-> None]
             ELSE [status |-> "ok",
                   arr |-> Arr(y.shape, [k \in 1..Size(y) |->
                                            RSub(y.data[k], RInt(t.data[k]))])]
        ELSE LET K == t.shape[1]
             IN  IF ~(K = C \/ K = 1 \/ C = 1)
                 THEN [status |-> "ValueError", arr |-> None]
                 ELSE LET cols == IF C = 1 THEN K ELSE C
                      IN  [status |-> "ok",
                           arr |-> Mat(N, cols, [i \in 1..N, j \in 1..cols |-> RSub(At(y, i, IF C = 1 THEN 1 ELSE j),
                                          RInt(t.data[IF K = 1 THEN 1 ELSE j]))])]

\* a / n elementwise
DivBy(a, n) == Arr(a.shape, [k \in DOMAIN a.data |-> RDivInt(a.data[k], n)])

\* backward(dout=1)
SoftmaxWithLoss_backward(self) ==
    IF self.t = None                              \* None has no attribute shape
    THEN [self |-> self, status |-> "AttributeError", ret |-> None]
    ELSE
    LET batch_size == self.t.shape[1]
    IN  IF Size(self.t) = Size(self.y)
        THEN LET d == SubBroadcast(self.y, self.t)
             IN  [self |-> self, status |-> d.status,
                  ret |-> IF d.status = "ok" THEN DivBy(d.arr, batch_size) ELSE None]
        ELSE \* dx[np.arange(batch_size), self.t] -= 1
             IF \/ Len(self.t.shape) # 1
                \/ batch_size > self.y.shape[1]
                \/ \E i \in 1..batch_size : self.t.data[i] >= self.y.shape[2]
             THEN [self |-> self, status |-> "IndexError", ret |-> None]
             ELSE LET dx == Mat(self.y.shape[1], self.y.shape[2], [i \in 1..self.y.shape[1], j \in 1..self.y.shape[2] |-> IF i <= batch_size /\ self.t.data[i] = j - 1
                                  THEN RSub(At(self.y, i, j), RInt(1))
                                  ELSE At(self.y, i, j)])
                  IN  [self |-> self, status |-> "ok", ret |-> DivBy(dx, batch_size)]

\* The exponentials of the scores: N x C matrices, N <= MaxBatch, C <= MaxClasses.
LossScores ==
    UNION {{Arr(<<N, C>>, d) : d \in [1..(N * C) -> {1, 3}]} :
              N \in 1..MaxBatch, C \in 1..MaxClasses}

\* One target class (0-based) for each of N rows, out of C classes.
TargetClasses(N, C) == [1..N -> 0..(C - 1)]

\* The two encodings of the targets.
IndexEncoded(cls) == Arr(<<Len(cls)>>, cls)
OneHotEncoded(cls, C) ==
    Mat(Len(cls), C, [i \in 1..(Len(cls)), j \in 1..C |-> IF cls[i] = j - 1 THEN 1 ELSE 0])

SoftmaxWithLossForward ==
    \E x \in LossScores :
        \E cls \in TargetClasses(x.shape[1], x.shape[2]), onehot \in BOOLEAN :
            \E r \in {SoftmaxWithLoss_forward(lossLayer, x,
                         IF onehot THEN OneHotEncoded(cls, x.shape[2])
                                   ELSE IndexEncoded(cls))} :
                /\ lossLayer' = r.self
                /\ call' = Call("forward", r.status, <<x, cls, onehot>>, <<>>, r.ret, "fresh")
                /\ hist' = HistForward(hist, None, "forward", <<x, cls, onehot>>)
                /\ UNCHANGED <<relu, affine, dropout, batchnorm, conv, pooling>>

SoftmaxWithLossBackward ==
    \E r \in {SoftmaxWithLoss_backward(lossLayer)} :
        /\ lossLayer' = r.self
        /\ call' = Call("backward", r.status, <<>>, <<>>, r.ret, "fresh")
        /\ hist' = HistOther(hist, None)
        /\ UNCHANGED <<relu, affine, dropout, batchnorm, conv, pooling>>

InitLoss ==
    /\ lossLayer = SoftmaxWithLoss_init
    /\ relu = None /\ affine = None /\ dropout = None
    /\ batchnorm = None /\ conv = None /\ pooling = None
    /\ call = NoCall
    /\ hist = NoHist

NextLoss == SoftmaxWithLossForward \/ SoftmaxWithLossBackward

SpecLoss == InitLoss /\ [][NextLoss]_vars

\* (y - onehot(cls)) / N, the gradient of the loss
LossGradient(y, cls) ==
    Mat(y.shape[1], y.shape[2], [i \in 1..y.shape[1], j \in 1..y.shape[2] |-> RDivInt(RSub(At(y, i, j), RInt(IF cls[i] = j - 1 THEN 1 ELSE 0)), y.shape[1])])

\* C4: for every N x C prediction y (N >= 1, C >= 1) and every choice of one
\* target class per row, backward after a forward with the targets given as
\* class indices and backward after a forward with the targets given one-hot
\* both return the N x C matrix (y - onehot) / N.
C4_BackwardSameForBothEncodings ==
    (call.op = "backward" /\ hist.last_forward = "forward") =>
        /\ call.status = "ok"
        /\ call.ret = LossGradient(lossLayer.y, hist.last_args[2])

\* The part of C4 the code keeps: the same, for C >= 2 classes, and for one-hot
\* targets of any C.
C4_HoldsFromTwoClasses ==
    (call.op = "backward" /\ hist.last_forward = "forward"
       /\ (lossLayer.y.shape[2] >= 2 \/ hist.last_args[3])) =>
        /\ call.status = "ok"
        /\ call.ret = LossGradient(lossLayer.y, hist.last_args[2])

---------------------------------------------------------------------------
(* class BatchNorm *)

\* An attribute the instance does not have yet (self.xn before the first
\* training-mode forward).
Unset == [kind |-> "unset"]

\* A tensor of floating-point numbers of which the model keeps the shape
\* only: the values that are computed from square roots.
Unvalued(shape) == Arr(shape, <<>>)

\* 10e-7
Eps == Rat(1, 1000000)

\* np.sqrt(r), kept as the term it is computed from
Sqrt(r) == [sqrt |-> r]

RVec(d) == Arr(<<Len(d)>>, [i \in DOMAIN d |-> RInt(d[i])])

\* np.zeros(D)
Zeros(D) == Arr(<<D>>, [j \in 1..D |-> RInt(0)])

BatchNorm_init(gamma, beta, momentum, running_mean, running_var) ==
    [batch_size |-> None,
     gamma |-> gamma, beta |-> beta, momentum |-> momentum,
     running_mean |-> running_mean, running_var |-> running_var,
     input_shape |-> None, xc |-> None, xn |-> Unset, std |-> None,
     dgamma |-> None, dbeta |-> None]

RSumSeq(q) ==
    LET RECURSIVE S(_)
        S(k) == IF k = 0 THEN RInt(0) ELSE RAdd(S(k - 1), q[k])
    IN  S(Len(q))

\* x.mean(axis=0) of an integer or rational matrix given by its element
\* function e[i, j]
MeanAxis0(N, D, e) ==
    Arr(<<D>>, [j \in 1..D |-> RDivInt(RSumSeq([i \in 1..N |-> e[i, j]]), N)])

\* momentum * running + (1.0 - momentum) * stat, elementwise, for two
\* vectors of one length
MovingAverage(momentum, running, stat) ==
    Arr(stat.shape,
        [j \in DOMAIN stat.data |->
            RAdd(RMul(momentum, running.data[j]),
                 RMul(RSub(RInt(1), momentum), stat.data[j]))])

\* __forward(x, train_flag) for a matrix x of integers with as many columns
\* as gamma has elements
BatchNorm___forward(self, x, train_flag) ==
    LET N == x.shape[1]
        D == x.shape[2]
        lazy  == self.running_mean = None
        self0 == IF lazy
                 THEN [self EXCEPT !.running_mean = Zeros(D), !.running_var = Zeros(D)]
                 ELSE self
    IN  IF train_flag
        THEN LET mu  == MeanAxis0(N, D, [i \in 1..N, j \in 1..D |-> RInt(At(x, i, j))])
                 xc  == Mat(N, D, [i \in 1..N, j \in 1..D |-> RSub(RInt(At(x, i, j)), mu.data[j])])
                 var == MeanAxis0(N, D, [i \in 1..N, j \in 1..D |-> RMul(At(xc, i, j), At(xc, i, j))])
                 std == Arr(<<D>>, [j \in 1..D |-> Sqrt(RAdd(var.data[j], Eps))])
                 xn  == Mat(N, D, [i \in 1..N, j \in 1..D |-> [num |-> At(xc, i, j), den |-> std.data[j]]])
                 self1 == [self0 EXCEPT !.batch_size = Scalar(N), !.xc = xc,
                                        !.xn = xn, !.std = std,
                                        !.running_mean =
                                            MovingAverage(self.momentum, self0.running_mean, mu)]
             IN  IF self0.running_var = None      \* momentum * None
                 THEN [self |-> self1, status |-> "TypeError", ret |-> None]
                 ELSE [self |-> [self1 EXCEPT !.running_var =
                                    MovingAverage(self.momentum, self0.running_var, var)],
                       status |-> "ok",
                       ret |-> Unvalued(x.shape)]
        ELSE IF self0.running_var = None          \* None + 10e-7
             THEN [self |-> self0, status |-> "TypeError", ret |-> None]
             ELSE [self |-> self0, status |-> "ok", ret |-> Unvalued(x.shape)]

\* forward(x, train_flag) for x of rank 2 or 4
BatchNorm_forward(self, x, train_flag) ==
    LET self0 == [self EXCEPT !.input_shape = Vec(x.shape)]
        x2    == IF Len(x.shape) # 2 THEN FlattenRows(x) ELSE x
        r     == BatchNorm___forward(self0, x2, train_flag)
    IN  IF r.status # "ok"
        THEN r
        ELSE [self |-> r.self, status |-> "ok",
              ret |-> Reshape(r.ret, r.self.input_shape.data).arr]

\* __backward(dout) for a matrix dout with as many columns as gamma has
\* elements; rows is the number of rows of the cached xc and xn.
BatchNorm___backward(self, dout) ==
    IF self.xn = Unset
    THEN [self |-> self, status |-> "AttributeError", ret |-> None]
    ELSE LET N  == self.xc.shape[1]
             Nd == dout.shape[1]
         IN  IF Len(dout.shape) # 2 \/ dout.shape[2] # self.xc.shape[2]
                \/ ~(Nd = N \/ Nd = 1 \/ N = 1)   \* self.xn * dout
                \/ (Nd = 1 /\ N # 1)              \* dxc += ... self.xc ...
             THEN [self |-> self, status |-> "ValueError", ret |-> None]
             ELSE [self |-> [self EXCEPT !.dgamma = Unvalued(<<dout.shape[2]>>),
                                         !.dbeta = SumAxis0(dout)],
                   status |-> "ok",
                   ret |-> Unvalued(dout.shape)]

\* backward(dout) for dout of rank 2 or 4
BatchNorm_backward(self, dout) ==
    LET d2 == IF Len(dout.shape) # 2
              THEN Reshape(dout, <<dout.shape[1] - 1>>)    \* dout.reshape(N - 1)
              ELSE [status |-> "ok", arr |-> dout]
    IN  IF d2.status # "ok"
        THEN [self |-> self, status |-> d2.status, ret |-> None]
        ELSE LET r == BatchNorm___backward(self, d2.arr)
             IN  IF r.status # "ok"
                 THEN r
                 ELSE LET dx == Reshape(r.ret, r.self.input_shape.data)
                      IN  [self |-> r.self, status |-> dx.status, ret |-> dx.arr]

\* Rows of the inputs x and of the gradients dout of BatchNorm.
BNXRows == { <<0, 2>>, <<2, 2>> }
BNDoutRows == { <<1, 2>> }

\* Each batch as a matrix (N, D) and as a rank-4 tensor (N, 1, D, 1).
BothRanks(ms) == ms \cup {Arr(<<m.shape[1], 1, m.shape[2], 1>>, m.data) : m \in ms}

\* Batches of one or two rows.
BNInputs == BothRanks(BatchesUpTo(BNXRows, 2))
BNDouts == BothRanks(BatchesUpTo(BNDoutRows, 2))

\* The running statistics an instance is constructed with: none (the
\* default), or a vector of one element for each feature.
BNRunning == {None, RVec(<<1, 1>>)}

\* The argument of a call fits the layer: x has as many features as gamma
\* has elements; dout has the shape of the input of the last forward call.
BatchNormConsistent(self, op, a) ==
    /\ Len(a.shape) >= 2
    /\ Prod(Tail(a.shape)) = self.gamma.shape[1]
    /\ (op = "backward" /\ self.input_shape # None) => a.shape = self.input_shape.data

BatchNormForward ==
    /\ batchnorm # None
    /\ \E x \in BNInputs, train_flag \in BOOLEAN :
        /\ train_flag => hist.trains < MaxTrain
        /\ \E r \in {BatchNorm_forward(batchnorm, x, train_flag)} :
            /\ batchnorm' = r.self
            /\ call' = Call("forward", r.status, <<x, train_flag>>, <<x>>, r.ret, "fresh")
            /\ hist' = Noted([hist EXCEPT
                                 !.last_forward = IF train_flag THEN "train" ELSE "infer",
                                 !.trains = IF train_flag THEN @ + 1 ELSE @],
                             "forward", r.status,
                             BatchNormConsistent(batchnorm, "forward", x))
            /\ UNCHANGED <<relu, affine, lossLayer, dropout, conv, pooling>>

BatchNormBackward ==
    /\ batchnorm # None
    /\ \E dout \in BNDouts :
        \E r \in {BatchNorm_backward(batchnorm, dout)} :
            /\ batchnorm' = r.self
            /\ call' = Call("backward", r.status, <<dout>>, <<dout>>, r.ret, "fresh")
            /\ hist' = Noted(hist, "backward", r.status,
                             BatchNormConsistent(batchnorm, "backward", dout))
            /\ UNCHANGED <<relu, affine, lossLayer, dropout, conv, pooling>>

InitBatchNorm ==
    /\ batchnorm \in {BatchNorm_init(RVec(<<1, 2>>), RVec(<<0, 1>>), Rat(9, 10), rm, rv) :
                        rm \in BNRunning, rv \in BNRunning}
    /\ relu = None /\ affine = None /\ lossLayer = None /\ dropout = None
    /\ conv = None /\ pooling = None
    /\ call = NoCall
    /\ hist = NoHist

NextBatchNorm == BatchNormForward \/ BatchNormBackward

SpecBatchNorm == InitBatchNorm /\ [][NextBatchNorm]_vars

\* The instance state BatchNorm.forward reads and writes besides the
\* parameters.
BNState(bn) ==
    <<bn.running_mean, bn.running_var, bn.input_shape, bn.batch_size,
      bn.xc, bn.xn, bn.std>>

\* C2: a BatchNorm.forward call with train_flag=False changes none of
\* running_mean, running_var, input_shape, batch_size, xc, xn and std, whatever
\* the state of the instance before the call; running_mean and running_var
\* change only in calls with train_flag=True.
C2_InferenceForwardMutatesNothing ==
    [][ /\ (call'.op = "forward" /\ ~call'.args[2]) =>
              BNState(batchnorm') = BNState(batchnorm)
        /\ (\/ batchnorm'.running_mean # batchnorm.running_mean
            \/ batchnorm'.running_var # batchnorm.running_var) =>
              (call'.op = "forward" /\ call'.args[2])
      ]_vars

\* The part of C2 the code keeps: an inference-mode forward leaves the
\* training cache (batch_size, xc, xn, std) alone, and leaves the running
\* statistics alone once the instance has them.
C2_InferenceKeepsCache ==
    [][ (call'.op = "forward" /\ ~call'.args[2]) =>
            /\ batchnorm'.batch_size = batchnorm.batch_size
            /\ batchnorm'.xc = batchnorm.xc
            /\ batchnorm'.xn = batchnorm.xn
            /\ batchnorm'.std = batchnorm.std
            /\ batchnorm.running_mean # None =>
                  /\ batchnorm'.running_mean = batchnorm.running_mean
                  /\ batchnorm'.running_var = batchnorm.running_var
      ]_vars

\* C3: after a training-mode forward on a rank-4 input, backward called with
\* a gradient of that input's shape (N, C, H, W) returns dx of shape
\* (N, C, H, W).
C3_BackwardRank4 ==
    (/\ call.op = "backward"
     /\ hist.last_forward = "train"
     /\ Len(call.args[1].shape) = 4
     /\ call.args[1].shape = batchnorm.input_shape.data) =>
        /\ call.status = "ok"
        /\ call.ret.shape = call.args[1].shape

\* The rank-2 counterpart of C3, which the code keeps: after a training-mode
\* forward on a matrix, backward called with a gradient of that shape returns
\* dx of that shape and stores dgamma and dbeta.
C3_BackwardRank2 ==
    (/\ call.op = "backward"
     /\ hist.last_forward = "train"
     /\ Len(call.args[1].shape) = 2
     /\ call.args[1].shape = batchnorm.input_shape.data) =>
        /\ call.status = "ok"
        /\ call.ret.shape = call.args[1].shape
        /\ batchnorm.dbeta = SumAxis0(call.args[1])

\* The batch mean and the batch variance of each feature of x (flattened to
\* a matrix), the variance as the mean of the squares less the square of the
\* mean.
BatchMean(x) ==
    LET m == FlattenRows(x)
    IN  [j \in 1..m.shape[2] |->
            Rat(SumSeq([i \in 1..m.shape[1] |-> At(m, i, j)]), m.shape[1])]

BatchVar(x) ==
    LET m == FlattenRows(x)
    IN  [j \in 1..m.shape[2] |->
            RSub(Rat(SumSeq([i \in 1..m.shape[1] |-> At(m, i, j) * At(m, i, j)]), m.shape[1]),
                 RMul(BatchMean(x)[j], BatchMean(x)[j]))]

\* momentum * old + (1 - momentum) * stat for a running statistic old (a
\* vector, or None: zeros) and a batch statistic stat
Averaged(momentum, old, stat) ==
    [j \in DOMAIN stat |->
        RAdd(RMul(momentum, IF old = None THEN RInt(0) ELSE old.data[j]),
             RMul(RSub(RInt(1), momentum), stat[j]))]

\* C8: after each BatchNorm.forward call with train_flag=True that returns,
\* running_mean = momentum*old_mean + (1-momentum)*batch_mean and running_var =
\* momentum*old_var + (1-momentum)*batch_var, where old_mean and old_var are
\* the values the instance held before the call, a statistic it did not hold
\* (None) counting as the zero vector of the feature dimension.
C8_RunningStatisticsUpdate ==
    [][ (call'.op = "forward" /\ call'.args[2] /\ call'.status = "ok") =>
            /\ batchnorm'.running_mean.data
                 = Averaged(batchnorm.momentum, batchnorm.running_mean,
                            BatchMean(call'.args[1]))
            /\ batchnorm'.running_var.data
                 = Averaged(batchnorm.momentum, batchnorm.running_var,
                            BatchVar(call'.args[1]))
      ]_vars

\* The part of C8 the code keeps: the same, for an instance that holds both
\* running statistics or neither.
C8_UpdateWhenBothOrNeither ==
    [][ (/\ call'.op = "forward" /\ call'.args[2] /\ call'.status = "ok"
         /\ (batchnorm.running_mean = None) <=> (batchnorm.running_var = None)) =>
            /\ batchnorm'.running_mean.data
                 = Averaged(batchnorm.momentum, batchnorm.running_mean,
                            BatchMean(call'.args[1]))
            /\ batchnorm'.running_var.data
                 = Averaged(batchnorm.momentum, batchnorm.running_var,
                            BatchVar(call'.args[1]))
      ]_vars


-----------------------------------------------------------------------------
\* Spatial transforms

\* int(n / d) of Python for integers n and d # 0: the quotient truncated
\* towards zero.
TruncDiv(n, d) ==
    IF (n >= 0) = (d > 0) THEN Abs(n) \div Abs(d) ELSE -(Abs(n) \div Abs(d))

\* The output resolution 1 + floor((size + 2*pad - filter)/stride), stride > 0.
OutSize(size, filter, stride, pad) == 1 + ((size + 2 * pad - filter) \div stride)

\* The element of x at (n, c, y, xx), counted from 0, of the zero-padded image.
Padded(x, n, c, y, xx) ==
    IF y \in 0..(x.shape[3] - 1) /\ xx \in 0..(x.shape[4] - 1)
    THEN x.data[((n * x.shape[2] + c) * x.shape[3] + y) * x.shape[4] + xx + 1]
    ELSE 0

\* im2col(x, filter_h, filter_w, stride, pad): one row per (n, out_y, out_x),
\* one column per (c, filter_y, filter_x).  An invalid configuration and a
\* window larger than the padded input are errors.  A tensor without values
\* gives a matrix without values.
Im2col(x, filter_h, filter_w, stride, pad) ==
    IF Len(x.shape) # 4 THEN [status |-> "ValueError", arr |-> None]
    ELSE IF stride <= 0 \/ pad < 0 \/ filter_h <= 0 \/ filter_w <= 0
    THEN [status |-> "InvalidConfiguration", arr |-> None]
    ELSE IF filter_h > x.shape[3] + 2 * pad \/ filter_w > x.shape[4] + 2 * pad
    THEN [status |-> "ShapeMismatch", arr |-> None]
    ELSE
      LET C     == x.shape[2]
          out_h == OutSize(x.shape[3], filter_h, stride, pad)
          out_w == OutSize(x.shape[4], filter_w, stride, pad)
          rows  == x.shape[1] * out_h * out_w
          cols  == C * filter_h * filter_w
          El(k) ==
              LET r == (k - 1) \div cols
                  q == (k - 1) % cols
              IN  Padded(x, r \div (out_h * out_w), q \div (filter_h * filter_w),
                         ((r \div out_w) % out_h) * stride + ((q \div filter_w) % filter_h) - pad,
                         (r % out_w) * stride + (q % filter_w) - pad)
      IN  [status |-> "ok",
           arr |-> IF x.data = <<>> THEN Unvalued(<<rows, cols>>)
                   ELSE Arr(<<rows, cols>>, [k \in 1..(rows * cols) |-> El(k)])]

\* col2im(col, input_shape, filter_h, filter_w, stride, pad): a tensor of the
\* input's shape from a column matrix laid out as im2col lays it out.
Col2im(col, input_shape, filter_h, filter_w, stride, pad) ==
    LET like == Im2col(Unvalued(input_shape), filter_h, filter_w, stride, pad)
    IN  IF like.status # "ok" THEN [status |-> like.status, arr |-> None]
        ELSE IF col.shape # like.arr.shape THEN [status |-> "ValueError", arr |-> None]
        ELSE [status |-> "ok", arr |-> Unvalued(input_shape)]

\* a.transpose(axes): axis i of the result is axis axes[i] of a.
TransposeAxes(a, axes) ==
    IF Len(axes) # Len(a.shape) THEN [status |-> "ValueError", arr |-> None]
    ELSE
      LET rank  == Len(axes)
          shape == [i \in 1..rank |-> a.shape[axes[i] + 1]]
          Old(k) ==
              SumSeq([i \in 1..rank |->
                        (((k - 1) \div Prod(SubSeq(shape, i + 1, rank))) % shape[i])
                        * Prod(SubSeq(a.shape, axes[i] + 2, rank))]) + 1
      IN  [status |-> "ok",
           arr |-> IF a.data = <<>> THEN Unvalued(shape)
                   ELSE Arr(shape, [k \in 1..Prod(shape) |-> a.data[Old(k)]])]

\* np.dot of two matrices without values: the shape of the product.
DotShape(a, b) ==
    IF Len(a.shape) # 2 \/ Len(b.shape) # 2 \/ a.shape[2] # b.shape[1]
    THEN [status |-> "ValueError", arr |-> None]
    ELSE [status |-> "ok", arr |-> Unvalued(<<a.shape[1], b.shape[2]>>)]

-----------------------------------------------------------------------------
\* Convolution.  Its tensors are modelled by their shapes.

Convolution_init(W, b, stride, pad) ==
    [x |-> None, b |-> b, W |-> W, dW |-> None, db |-> None,
     stride |-> stride, pad |-> pad, col |-> None, col_W |-> None]

Convolution_forward(self, x) ==
    LET Raise(e) == [self |-> self, status |-> e, ret |-> None]
        FN == self.W.shape[1]
        FH == self.W.shape[3]
        FW == self.W.shape[4]
    IN
    IF Len(self.W.shape) # 4 \/ Len(x.shape) # 4 THEN Raise("ValueError")
    ELSE IF self.stride = 0 THEN Raise("ZeroDivisionError")
    ELSE
      LET N     == x.shape[1]
          out_h == 1 + TruncDiv(x.shape[3] + 2 * self.pad - FH, self.stride)
          out_w == 1 + TruncDiv(x.shape[4] + 2 * self.pad - FW, self.stride)
          col   == Im2col(x, FH, FW, self.stride, self.pad)
      IN
      IF col.status # "ok" THEN Raise(col.status)
      ELSE
        LET col_W == TransposeAxes(Reshape(self.W, <<FN, -1>>).arr, <<1, 0>>).arr
            prod  == DotShape(col.arr, col_W)
        IN
        IF prod.status # "ok" THEN Raise(prod.status)
        ELSE IF self.b.shape # <<prod.arr.shape[2]>> /\ self.b.shape # <<1>>
        THEN Raise("ValueError")                  \* ... + self.b
        ELSE
          LET re == Reshape(prod.arr, <<N, out_h, out_w, -1>>)
          IN
          IF re.status # "ok" THEN Raise(re.status)
          ELSE [self |-> [self EXCEPT !.x = x, !.col = col.arr, !.col_W = col_W],
                status |-> "ok",
                ret |-> TransposeAxes(re.arr, <<0, 3, 1, 2>>).arr]

\* A backward that stores dW as the matrix it was computed as, not reshaped.
Convolution_backward_dW_flat(self, dout) ==
    LET FN == self.W.shape[1]
        tr == TransposeAxes(dout, <<0, 2, 3, 1>>)
    IN
    IF tr.status # "ok" THEN [self |-> self, status |-> tr.status, ret |-> None]
    ELSE
      LET re == Reshape(tr.arr, <<-1, FN>>)
      IN
      IF re.status # "ok" THEN [self |-> self, status |-> re.status, ret |-> None]
      ELSE
        LET self1 == [self EXCEPT !.db = Unvalued(<<FN>>)]
        IN
        IF self.col = None THEN [self |-> self1, status |-> "AttributeError", ret |-> None]
        ELSE
          LET dW == DotShape(TransposeAxes(self.col, <<1, 0>>).arr, re.arr)
          IN
          IF dW.status # "ok" THEN [self |-> self1, status |-> dW.status, ret |-> None]
          ELSE [self |-> [self1 EXCEPT !.dW = TransposeAxes(dW.arr, <<1, 0>>).arr],
                status |-> "ok", ret |-> Unvalued(self.x.shape)]

Convolution_backward(self, dout) ==
    LET FN == self.W.shape[1]
        C  == self.W.shape[2]
        FH == self.W.shape[3]
        FW == self.W.shape[4]
        tr == TransposeAxes(dout, <<0, 2, 3, 1>>)
    IN
    IF tr.status # "ok" THEN [self |-> self, status |-> tr.status, ret |-> None]
    ELSE
      LET re == Reshape(tr.arr, <<-1, FN>>)
      IN
      IF re.status # "ok" THEN [self |-> self, status |-> re.status, ret |-> None]
      ELSE
        LET self1 == [self EXCEPT !.db = Unvalued(<<FN>>)]
        IN
        IF self.col = None THEN [self |-> self1, status |-> "AttributeError", ret |-> None]
        ELSE
          LET dW == DotShape(TransposeAxes(self.col, <<1, 0>>).arr, re.arr)
          IN
          IF dW.status # "ok" THEN [self |-> self1, status |-> dW.status, ret |-> None]
          ELSE
            LET self2 == [self1 EXCEPT !.dW = dW.arr]
                dWr   == Reshape(TransposeAxes(self2.dW, <<1, 0>>).arr, <<FN, C, FH, FW>>)
            IN
            IF dWr.status # "ok" THEN [self |-> self2, status |-> dWr.status, ret |-> None]
            ELSE
              LET self3 == [self2 EXCEPT !.dW = dWr.arr]
                  dcol  == DotShape(re.arr, TransposeAxes(self.col_W, <<1, 0>>).arr)
              IN
              IF dcol.status # "ok" THEN [self |-> self3, status |-> dcol.status, ret |-> None]
              ELSE
                LET dx == Col2im(dcol.arr, self.x.shape, FH, FW, self.stride, self.pad)
                IN  [self |-> self3, status |-> dx.status, ret |-> dx.arr]

\* Kernels (FN, C, FH, FW) with their biases (FN,).
ConvKernels ==
    {[b |-> Unvalued(<<s[1]>>), W |-> Unvalued(s)] :
        s \in {<<2, 1, 1, 2>>, <<1, 2, 2, 1>>, <<2, 1, 2, 2>>}}

\* (stride, pad): valid ones, a zero stride, a negative stride, a negative pad.
ConvConfigs == {<<1, 0>>, <<2, 0>>, <<1, 1>>, <<0, 0>>, <<-1, 0>>, <<1, -1>>}

\* The shapes (N, C, H, W) of images and of gradients of feature maps.
ImageShapes ==
    {<<n, c, h, w>> : n \in 1..2, c \in 1..2, h \in 1..MaxHW, w \in 1..MaxHW}

NothingConstructed ==
    /\ relu = None /\ affine = None /\ lossLayer = None /\ dropout = None
    /\ batchnorm = None /\ conv = None /\ pooling = None

ConvolutionInit ==
    /\ NothingConstructed
    /\ \E k \in ConvKernels, cfg \in ConvConfigs :
        /\ conv' = Convolution_init(k.W, k.b, cfg[1], cfg[2])
        /\ call' = Call("__init__", "ok", <<>>, <<>>, None, "fresh")
    /\ UNCHANGED <<relu, affine, lossLayer, dropout, batchnorm, pooling, hist>>

\* The argument of a call fits the layer: x has the channels of the kernel
\* and, padded, is no smaller than the kernel; dout has the shape of the
\* output of the last forward call that returned.
ConvolutionConsistent(self, op, a) ==
    /\ Len(a.shape) = 4
    /\ IF op = "forward"
       THEN /\ a.shape[2] = self.W.shape[2]
            /\ self.W.shape[3] <= a.shape[3] + 2 * self.pad
            /\ self.W.shape[4] <= a.shape[4] + 2 * self.pad
       ELSE self.x # None =>
              a.shape = <<self.x.shape[1], self.W.shape[1],
                          OutSize(self.x.shape[3], self.W.shape[3], self.stride, self.pad),
                          OutSize(self.x.shape[4], self.W.shape[4], self.stride, self.pad)>>

ConvolutionForward ==
    /\ conv # None
    /\ \E s \in ImageShapes :
        \E r \in {Convolution_forward(conv, Unvalued(s))} :
            /\ conv' = r.self
            /\ call' = Call("forward", r.status, <<Unvalued(s)>>, <<>>, r.ret, "fresh")
            /\ hist' = Noted(hist, "forward", r.status,
                             ConvolutionConsistent(conv, "forward", Unvalued(s)))
    /\ UNCHANGED <<relu, affine, lossLayer, dropout, batchnorm, pooling>>

ConvolutionBackward ==
    /\ conv # None
    /\ \E s \in ImageShapes :
        \E r \in {Convolution_backward(conv, Unvalued(s))} :
            /\ conv' = r.self
            /\ call' = Call("backward", r.status, <<Unvalued(s)>>, <<>>, r.ret, "fresh")
            /\ hist' = Noted(hist, "backward", r.status,
                             ConvolutionConsistent(conv, "backward", Unvalued(s)))
    /\ UNCHANGED <<relu, affine, lossLayer, dropout, batchnorm, pooling>>

NextConvolution == ConvolutionInit \/ ConvolutionForward \/ ConvolutionBackward

-----------------------------------------------------------------------------
\* Pooling

Pooling_init(pool_h, pool_w, stride, pad) ==
    [x |-> None, stride |-> stride, pad |-> pad,
     pool_h |-> pool_h, pool_w |-> pool_w, arg_max |-> None]

MaxOf(S) == CHOOSE v \in S : \A w \in S : w <= v

\* np.max(col, axis=1)
MaxAxis1(col) ==
    Arr(<<col.shape[1]>>,
        [i \in 1..col.shape[1] |-> MaxOf({At(col, i, j) : j \in 1..col.shape[2]})])

\* np.argmax(col, axis=1): the first position of the maximum, from 0.
ArgMaxAxis1(col) ==
    Arr(<<col.shape[1]>>,
        [i \in 1..col.shape[1] |->
            (CHOOSE j \in 1..col.shape[2] :
                /\ \A k \in 1..col.shape[2] : At(col, i, k) <= At(col, i, j)
                /\ \A k \in 1..(j - 1) : At(col, i, k) < At(col, i, j)) - 1])

Pooling_forward(self, x) ==
    LET Raise(e) == [self |-> self, status |-> e, ret |-> None]
    IN
    IF Len(x.shape) # 4 THEN Raise("ValueError")
    ELSE IF self.stride = 0 THEN Raise("ZeroDivisionError")
    ELSE
      LET N     == x.shape[1]
          C     == x.shape[2]
          out_h == TruncDiv(self.stride + x.shape[3] - self.pool_h, self.stride)
          out_w == TruncDiv(self.stride + x.shape[4] - self.pool_w, self.stride)
          im    == Im2col(x, self.pool_h, self.pool_w, self.stride, self.pad)
      IN
      IF im.status # "ok" THEN Raise(im.status)
      ELSE
        LET col == Reshape(im.arr, <<-1, self.pool_h * self.pool_w>>)
        IN
        IF col.status # "ok" THEN Raise(col.status)
        ELSE
          LET arg_max == ArgMaxAxis1(col.arr)
              out     == Reshape(MaxAxis1(col.arr), <<N, out_h, out_w, C>>)
          IN
          IF out.status # "ok" THEN Raise(out.status)
          ELSE [self |-> [self EXCEPT !.x = x, !.arg_max = arg_max],
                status |-> "ok",
                ret |-> TransposeAxes(out.arr, <<0, 3, 1, 2>>).arr]

\* (pool_h, pool_w, stride, pad): valid windows without and with padding, then
\* a zero height, a zero stride, a negative stride and a negative pad.
PoolConfigs ==
    {<<1, 1, 1, 0>>, <<2, 2, 1, 0>>, <<2, 2, 2, 0>>, <<2, 1, 1, 0>>, <<1, 2, 2, 0>>,
     <<2, 2, 1, 1>>, <<2, 2, 2, 1>>, <<3, 1, 1, 1>>,
     <<0, 1, 1, 0>>, <<2, 2, 0, 0>>, <<2, 2, -1, 0>>, <<2, 2, 1, -1>>}

\* Images with values: rising along the memory order, falling, and mixed
\* with negative values.
Images ==
    UNION {{Arr(s, [k \in 1..Prod(s) |-> k]),
            Arr(s, [k \in 1..Prod(s) |-> Prod(s) - k]),
            Arr(s, [k \in 1..Prod(s) |-> ((3 * k) % 5) - 3])} :
           s \in {t \in ImageShapes : t[1] * t[2] <= 2}}

PoolingInit ==
    /\ NothingConstructed
    /\ \E cfg \in PoolConfigs :
        /\ pooling' = Pooling_init(cfg[1], cfg[2], cfg[3], cfg[4])
        /\ call' = Call("__init__", "ok", <<>>, <<>>, None, "fresh")
    /\ UNCHANGED <<relu, affine, lossLayer, dropout, batchnorm, conv, hist>>

PoolingForward ==
    /\ pooling # None
    /\ \E x \in Images :
        \E r \in {Pooling_forward(pooling, x)} :
            /\ pooling' = r.self
            /\ call' = Call("forward", r.status, <<x>>, <<>>, r.ret, "fresh")
    /\ UNCHANGED <<relu, affine, lossLayer, dropout, batchnorm, conv, hist>>

NextPooling == PoolingInit \/ PoolingForward

InitSpatial ==
    /\ NothingConstructed
    /\ call = NoCall
    /\ hist = NoHist

NextSpatial == NextConvolution \/ NextPooling

SpecSpatial == InitSpatial /\ [][NextSpatial]_vars

InvalidConfiguration(layer) ==
    \/ layer.stride <= 0
    \/ layer.pad < 0
    \/ "pool_h" \in DOMAIN layer /\ (layer.pool_h <= 0 \/ layer.pool_w <= 0)

\* The window of the layer is larger than the padded image x.
WindowTooLarge(layer, x) ==
    LET fh == IF "pool_h" \in DOMAIN layer THEN layer.pool_h ELSE layer.W.shape[3]
        fw == IF "pool_h" \in DOMAIN layer THEN layer.pool_w ELSE layer.W.shape[4]
    IN  fh > x.shape[3] + 2 * layer.pad \/ fw > x.shape[4] + 2 * layer.pad

\* The convolution or pooling layer that has been constructed.
Spatial == IF conv # None THEN conv ELSE pooling

\* C7: an invalid configuration of Convolution or Pooling (stride <= 0, pool
\* height or width <= 0, pad < 0) and a kernel or pool window larger than the
\* padded input are errors: no constructor and no forward call with such
\* values returns normally.
C7_InvalidConfigurationIsAnError ==
    /\ (call.op = "__init__" /\ InvalidConfiguration(Spatial)) => call.status # "ok"
    /\ (call.op = "forward"
         /\ (InvalidConfiguration(Spatial) \/ WindowTooLarge(Spatial, call.args[1])))
       => call.status # "ok"

\* The part of C7 that holds, given im2col rejects what it is given: no forward
\* call with an invalid configuration or too large a window returns normally.
C7_ForwardRaises ==
    (call.op = "forward"
       /\ (InvalidConfiguration(Spatial) \/ WindowTooLarge(Spatial, call.args[1])))
    => call.status # "ok"

\* The maximum of the window of output element (n, c, oy, ox) in the padded x.
WindowMax(layer, x, n, c, oy, ox) ==
    MaxOf({Padded(x, n, c, oy * layer.stride + fy - layer.pad,
                  ox * layer.stride + fx - layer.pad) :
             fy \in 0..(layer.pool_h - 1), fx \in 0..(layer.pool_w - 1)})

\* The forward call of Pooling that has just been made returned a tensor of
\* shape (N, C, outH, outW), outH and outW computed with the pad, each element
\* the maximum of its window.
PoolingOutputAsSpecified ==
    LET x     == call.args[1]
        out_h == OutSize(x.shape[3], pooling.pool_h, pooling.stride, pooling.pad)
        out_w == OutSize(x.shape[4], pooling.pool_w, pooling.stride, pooling.pad)
    IN  /\ call.status = "ok"
        /\ call.ret.shape = <<x.shape[1], x.shape[2], out_h, out_w>>
        /\ \A n \in 0..(x.shape[1] - 1), c \in 0..(x.shape[2] - 1),
              oy \in 0..(out_h - 1), ox \in 0..(out_w - 1) :
              call.ret.data[((n * x.shape[2] + c) * out_h + oy) * out_w + ox + 1]
                = WindowMax(pooling, x, n, c, oy, ox)

\* C10: for every input (N, C, H, W) and every pool_h, pool_w, stride >= 1 and
\* pad >= 0 with the window no larger than the padded input, Pooling.forward
\* returns a tensor of shape (N, C, outH, outW), outH = 1 + floor((H + 2*pad -
\* pool_h)/stride) and outW likewise, each element the maximum of its window.
C10_PoolingForwardOutput ==
    (/\ pooling # None
     /\ call.op = "forward"
     /\ ~InvalidConfiguration(pooling)
     /\ ~WindowTooLarge(pooling, call.args[1]))
    => PoolingOutputAsSpecified

\* The part of C10 that holds: without padding the output is as specified.
C10_WithoutPadding ==
    (/\ pooling # None
     /\ call.op = "forward"
     /\ ~InvalidConfiguration(pooling)
     /\ pooling.pad = 0
     /\ ~WindowTooLarge(pooling, call.args[1]))
    => PoolingOutputAsSpecified

\* A forward call without padding returned several maxima of windows of
\* several elements.
C10_WithoutPaddingReached ==
    /\ pooling # None
    /\ call.op = "forward"
    /\ call.status = "ok"
    /\ pooling.pad = 0
    /\ pooling.pool_h * pooling.pool_w > 1
    /\ Size(call.ret) > 1

\* With padding, a forward call returned a tensor of another shape than the
\* one specified.
C10_SilentlyOtherShape ==
    /\ pooling # None
    /\ call.op = "forward"
    /\ call.status = "ok"
    /\ ~InvalidConfiguration(pooling)
    /\ ~WindowTooLarge(pooling, call.args[1])
    /\ ~PoolingOutputAsSpecified

-----------------------------------------------------------------------------
\* The layers with parameters: Affine, BatchNorm and Convolution

InitParam == InitAffine \/ InitBatchNorm \/ InitSpatial

NextParam == NextAffine \/ NextBatchNorm \/ NextConvolution

SpecParam == InitParam /\ [][NextParam]_vars

\* Each gradient of the constructed layer with its parameter.
Gradients ==
    IF affine # None THEN {<<affine.dW, affine.W>>, <<affine.db, affine.b>>}
    ELSE IF conv # None THEN {<<conv.dW, conv.W>>, <<conv.db, conv.b>>}
    ELSE IF batchnorm # None
    THEN {<<batchnorm.dgamma, batchnorm.gamma>>, <<batchnorm.dbeta, batchnorm.beta>>}
    ELSE {}

\* C6 as stated: in every state of a layer with parameters, from construction
\* onward and after any forward and backward calls with shape-consistent
\* arguments, each gradient tensor has the shape of its parameter tensor.
C6_GradientShapesFromConstruction ==
    ~hist.inconsistent =>
        \A g \in Gradients : IsArr(g[1]) /\ g[1].shape = g[2].shape

\* C6: in every state of a layer with parameters reached from construction by
\* forward and backward calls with shape-consistent arguments, each gradient
\* is None, as it is from construction until a backward call stores it, or a
\* tensor of the shape of its parameter; once a backward call has returned,
\* no gradient is None.
C6_GradientShapes ==
    ~hist.inconsistent =>
        \A g \in Gradients :
            /\ g[1] = None \/ (IsArr(g[1]) /\ g[1].shape = g[2].shape)
            /\ hist.backwards => g[1] # None

\* A backward call of Convolution has returned and stored the gradient of a
\* kernel whose four dimensions are not all the same.
C6_Witness ==
    /\ ~hist.inconsistent
    /\ conv # None
    /\ call.op = "backward" /\ call.status = "ok"
    /\ conv.dW.shape = <<2, 1, 1, 2>>
    /\ conv.db.shape = <<2>>

\* Backward calls of Affine and of BatchNorm have returned likewise.
C6_WitnessAffine ==
    /\ ~hist.inconsistent
    /\ affine # None
    /\ call.op = "backward" /\ call.status = "ok"
    /\ affine.dW.shape = <<2, 1>>

C6_WitnessBatchNorm ==
    /\ ~hist.inconsistent
    /\ batchnorm # None
    /\ call.op = "backward" /\ call.status = "ok"
    /\ batchnorm.dgamma.shape = <<2>>

\* A gradient is stored although no backward call has returned: backward of
\* Convolution before forward stores db and raises.
C6_GradientBeforeBackwardReturns ==
    /\ ~hist.inconsistent /\ ~hist.backwards
    /\ \E g \in Gradients : g[1] # None

=============================================================================
